---- MODULE Spec2Model ----
(***************************************************************************)
(* Model of app/calculation/__init__.py: the Calculation base class, the   *)
(* CalculationFactory registry and the four concrete calculations.         *)
(*                                                                         *)
(* Python strings are sequences of one-character strings, so that          *)
(* str.lower(), str.replace() and the f-string of __str__ are computed     *)
(* and not assumed.  Python floats are exact signed rationals              *)
(* [neg, n, d] (n/d reduced, with a signed zero); operands are bounded to  *)
(* values whose results are exactly representable in binary floating       *)
(* point, for which repr(float) is the exact decimal expansion.            *)
(***************************************************************************)
EXTENDS Integers, Sequences, FiniteSets, TLC

VARIABLES
    operands,     \* the pair <<a, b>> the caller passes to create_calculation
    registry,     \* CalculationFactory._calculations: key -> class
    entity,       \* the Calculation object most recently constructed, or NoEntity
    outcome,      \* what the most recent call returned or raised
    renders,      \* outcomes of the str() calls made on `entity` since it was built
    cregistry,    \* _calculations in the threaded runs
    pc,           \* per thread: position inside register_calculation / create_calculation
    frame,        \* per thread: arguments and locals of the running call
    ret,          \* per thread: what its last finished call returned or raised
    accepted,     \* history: <<key, class, thread>> of register calls that returned normally
    ncalls        \* number of calls started in the threaded runs

vars == <<operands, registry, entity, outcome, renders, cregistry, pc, frame, ret, accepted, ncalls>>
seqVars == <<operands, registry, entity, outcome, renders>>
concVars == <<cregistry, pc, frame, ret, accepted, ncalls>>

-----------------------------------------------------------------------------
(* Bounds *)

MaxInt == 3         \* integer operands range over 0 .. MaxInt
MaxRenders == 2     \* how many consecutive str() outcomes are remembered
MaxCalls == 3       \* calls started in a threaded run

-----------------------------------------------------------------------------
(* Strings *)

UpperChars == <<"A","B","C","D","E","F","G","H","I","J","K","L","M",
                "N","O","P","Q","R","S","T","U","V","W","X","Y","Z">>
LowerChars == <<"a","b","c","d","e","f","g","h","i","j","k","l","m",
                "n","o","p","q","r","s","t","u","v","w","x","y","z">>

\* the lowercase letter of each uppercase letter
LowerOf ==
    [c \in {UpperChars[i] : i \in 1..Len(UpperChars)} |->
        LowerChars[CHOOSE i \in 1..Len(UpperChars) : UpperChars[i] = c]]

LowerChar(c) == IF c \in DOMAIN LowerOf THEN LowerOf[c] ELSE c

\* str.lower()
PyLower(s) == [i \in 1..Len(s) |-> LowerChar(s[i])]

StartsWith(s, p) == Len(s) >= Len(p) /\ SubSeq(s, 1, Len(p)) = p

\* str.replace(old, ''): every non-overlapping occurrence, scanning from the left
RECURSIVE PyRemoveAll(_, _)
PyRemoveAll(s, old) ==
    IF Len(s) < Len(old) THEN s
    ELSE IF StartsWith(s, old) THEN PyRemoveAll(SubSeq(s, Len(old) + 1, Len(s)), old)
    ELSE <<s[1]>> \o PyRemoveAll(Tail(s), old)

RECURSIVE Concat(_)
Concat(parts) == IF parts = <<>> THEN <<>> ELSE Head(parts) \o Concat(Tail(parts))

CalculationWord == <<"C","a","l","c","u","l","a","t","i","o","n">>

-----------------------------------------------------------------------------
(* Numbers *)

RECURSIVE Gcd(_, _)
Gcd(x, y) == IF y = 0 THEN x ELSE Gcd(y, x % y)

Abs(x) == IF x < 0 THEN -x ELSE x

\* the float of magnitude n/d with the given sign bit
Float(neg, n, d) == [neg |-> neg, n |-> n \div Gcd(n, d), d |-> d \div Gcd(n, d)]

FromInt(k) == Float(k < 0, Abs(k), 1)
NegZero == Float(TRUE, 0, 1)
Half == Float(FALSE, 1, 2)

\* signed numerator
Sg(x) == IF x.neg THEN -x.n ELSE x.n

\* Python's `x == 0`
IsZero(x) == x.n = 0

Negate(x) == [x EXCEPT !.neg = ~x.neg]

IsPow2(d) == d \in {1, 2, 4, 8, 16, 32, 64}

\* exactly representable as a binary float (within the model's range)
Exact(x) == IsPow2(x.d)

FloatAdd(x, y) ==
    LET num == Sg(x) * y.d + Sg(y) * x.d
    IN  IF num = 0 THEN Float(x.neg /\ y.neg, 0, 1)
        ELSE Float(num < 0, Abs(num), x.d * y.d)

FloatSub(x, y) == FloatAdd(x, Negate(y))

FloatMul(x, y) == Float(x.neg # y.neg, x.n * y.n, x.d * y.d)

\* y is not zero
FloatDiv(x, y) == Float(x.neg # y.neg, x.n * y.d, x.d * y.n)

Digits == <<"0","1","2","3","4","5","6","7","8","9">>

RECURSIVE NatStr(_)
NatStr(k) == IF k < 10 THEN <<Digits[k + 1]>> ELSE NatStr(k \div 10) \o <<Digits[(k % 10) + 1]>>

\* decimal digits of r/d, 0 <= r < d, d a power of two (the expansion terminates)
RECURSIVE FracStr(_, _)
FracStr(r, d) ==
    IF r = 0 THEN <<>>
    ELSE <<Digits[((r * 10) \div d) + 1]>> \o FracStr((r * 10) % d, d)

\* repr(float) of an exactly representable value of moderate size: '-0.0', '2.0', '0.25'
FloatStr(x) ==
    (IF x.neg THEN <<"-">> ELSE <<>>)
    \o NatStr(x.n \div x.d) \o <<".">>
    \o (IF x.n % x.d = 0 THEN <<"0">> ELSE FracStr(x.n % x.d, x.d))

-----------------------------------------------------------------------------
(* Classes.  A class is named by the string of its identifier; ClassName   *)
(* gives its __name__ as a Python string.  Besides the four classes of the *)
(* module, two subclasses a client may define and register:                *)
(*   class TaxCalculationSumCalculation(AddCalculation): pass              *)
(*   class Ratio(DivideCalculation): pass                                  *)

BuiltinClasses == {"AddCalculation", "SubtractCalculation", "MultiplyCalculation", "DivideCalculation"}
ClientClasses == {"TaxCalculationSumCalculation", "Ratio"}
Classes == BuiltinClasses \cup ClientClasses

ClassName(cls) ==
    CASE cls = "AddCalculation" -> <<"A","d","d","C","a","l","c","u","l","a","t","i","o","n">>
      [] cls = "SubtractCalculation" -> <<"S","u","b","t","r","a","c","t","C","a","l","c","u","l","a","t","i","o","n">>
      [] cls = "MultiplyCalculation" -> <<"M","u","l","t","i","p","l","y","C","a","l","c","u","l","a","t","i","o","n">>
      [] cls = "DivideCalculation" -> <<"D","i","v","i","d","e","C","a","l","c","u","l","a","t","i","o","n">>
      [] cls = "TaxCalculationSumCalculation" -> <<"T","a","x","C","a","l","c","u","l","a","t","i","o","n","S","u","m","C","a","l","c","u","l","a","t","i","o","n">>
      [] cls = "Ratio" -> <<"R","a","t","i","o">>

\* the class of the method resolution order that defines execute()
ExecuteOwner(cls) ==
    CASE cls = "TaxCalculationSumCalculation" -> "AddCalculation"
      [] cls = "Ratio" -> "DivideCalculation"
      [] OTHER -> cls

-----------------------------------------------------------------------------
(* Results of calls: a returned number or string, or a raised exception.   *)
(* `lib` records the Operation function the call delegated to, with its    *)
(* arguments.                                                              *)

Zero == FromInt(0)
NoLib == <<>>

Returned(num) == [kind |-> "ok", num |-> num, text |-> <<>>, lib |-> NoLib]
Raised(exc, text) == [kind |-> exc, num |-> Zero, text |-> text, lib |-> NoLib]
Delegated(f, a, b, r) == [r EXCEPT !.lib = <<f, a, b>>]

-----------------------------------------------------------------------------
(* app.operation.Operation: the four static methods *)

addition(a, b) == Returned(FloatAdd(a, b))
subtraction(a, b) == Returned(FloatSub(a, b))
multiplication(a, b) == Returned(FloatMul(a, b))
division(a, b) ==
    IF IsZero(b) THEN Raised("ZeroDivisionError", <<"float division by zero">>)
    ELSE Returned(FloatDiv(a, b))

-----------------------------------------------------------------------------
(* Calculation and its subclasses *)

\* Calculation.__init__
NewCalculation(cls, a, b) == [cls |-> cls, a |-> a, b |-> b]

NoEntity == [cls |-> "None", a |-> Zero, b |-> Zero]

AddExecute(self) == Delegated("addition", self.a, self.b, addition(self.a, self.b))

\* variant: the operands passed in the other order
SubtractExecuteSwapped(self) ==
    Delegated("subtraction", self.b, self.a, subtraction(self.b, self.a))

SubtractExecute(self) == Delegated("subtraction", self.a, self.b, subtraction(self.a, self.b))

MultiplyExecute(self) ==
    Delegated("multiplication", self.a, self.b, multiplication(self.a, self.b))

\* variant: no test of self.b before delegating
DivideExecuteUnchecked(self) == Delegated("division", self.a, self.b, division(self.a, self.b))

DivideExecute(self) ==
    IF IsZero(self.b) THEN Raised("ZeroDivisionError", <<"Cannot divide by zero.">>)
    ELSE Delegated("division", self.a, self.b, division(self.a, self.b))

\* self.execute()
Execute(self) ==
    CASE ExecuteOwner(self.cls) = "AddCalculation" -> AddExecute(self)
      [] ExecuteOwner(self.cls) = "SubtractCalculation" -> SubtractExecute(self)
      [] ExecuteOwner(self.cls) = "MultiplyCalculation" -> MultiplyExecute(self)
      [] ExecuteOwner(self.cls) = "DivideCalculation" -> DivideExecute(self)

\* self.__class__.__name__.replace('Calculation', '')
OperationName(cls) == PyRemoveAll(ClassName(cls), CalculationWord)

\* variant: an exception of execute() is caught and rendered
StrSwallow(self) ==
    LET result == Execute(self)
    IN  [result EXCEPT !.kind = "ok", !.text =
            Concat(<< ClassName(self.cls), <<":", " ">>, FloatStr(self.a), <<" ">>,
                      PyRemoveAll(ClassName(self.cls), CalculationWord), <<" ">>,
                      FloatStr(self.b), <<" ", "=", " ">>,
                      IF result.kind = "ok" THEN FloatStr(result.num) ELSE <<"e","r","r","o","r">> >>)]

\* Calculation.__str__: an exception of execute() propagates
Str(self) ==
    LET result == Execute(self)
    IN  IF result.kind # "ok" THEN result
        ELSE [result EXCEPT !.text =
                Concat(<< ClassName(self.cls), <<":", " ">>, FloatStr(self.a), <<" ">>,
                          OperationName(self.cls), <<" ">>, FloatStr(self.b),
                          <<" ", "=", " ">>, FloatStr(result.num) >>)]

-----------------------------------------------------------------------------
(* CalculationFactory *)

\* variant: dict.get(key, AddCalculation)
DictGetDefault(d, key) == IF key \in DOMAIN d THEN d[key] ELSE "AddCalculation"

\* dict.get(key): None when the key is absent
DictGet(d, key) == IF key \in DOMAIN d THEN d[key] ELSE "None"

\* dict[key] = value
DictSet(d, key, value) == [k \in DOMAIN d \cup {key} |-> IF k = key THEN value ELSE d[k]]

\* truth value of a class object or None
Truthy(c) == c # "None"

\* variant: no membership test, the store overwrites
RegisterNoCheck(reg, calculation_type, subclass) ==
    [registry |-> [k \in DOMAIN reg \cup {PyLower(calculation_type)} |->
                      IF k = PyLower(calculation_type) THEN subclass ELSE reg[k]],
     kind |-> "ok",
     text |-> <<>>]

\* variant: the dictionary is rebound to a new one holding only the new key
RegisterRebind(reg, calculation_type, subclass) ==
    IF PyLower(calculation_type) \in DOMAIN reg
    THEN [registry |-> reg,
          kind |-> "ValueError",
          text |-> <<"Calculation type '", calculation_type, "' is already registered.">>]
    ELSE [registry |-> [k \in {PyLower(calculation_type)} |-> subclass],
          kind |-> "ok",
          text |-> <<>>]

\* register_calculation(calculation_type)(subclass): the registry afterwards and
\* what the decorator returned or raised
RegisterCalculation(reg, calculation_type, subclass) ==
    LET calculation_type_lower == PyLower(calculation_type)
    IN  IF calculation_type_lower \in DOMAIN reg
        THEN [registry |-> reg,
              kind |-> "ValueError",
              text |-> <<"Calculation type '", calculation_type, "' is already registered.">>]
        ELSE [registry |-> DictSet(reg, calculation_type_lower, subclass),
              kind |-> "ok",
              text |-> <<>>]

\* variant: the message names the lowercased operator
CreateCalculationLowerMsg(reg, calculation_type, a, b) ==
    IF PyLower(calculation_type) \notin DOMAIN reg
    THEN [kind |-> "ValueError",
          text |-> <<"Unsupported calculation type: '", PyLower(calculation_type), "'">>,
          entity |-> [cls |-> "None", a |-> FromInt(0), b |-> FromInt(0)]]
    ELSE [kind |-> "ok",
          text |-> <<>>,
          entity |-> [cls |-> reg[PyLower(calculation_type)], a |-> a, b |-> b]]

\* variant: the lookup uses the name as given
CreateCalculationNoLower(reg, calculation_type, a, b) ==
    IF calculation_type \notin DOMAIN reg
    THEN [kind |-> "ValueError",
          text |-> <<"Unsupported calculation type: '", calculation_type, "'">>,
          entity |-> [cls |-> "None", a |-> FromInt(0), b |-> FromInt(0)]]
    ELSE [kind |-> "ok",
          text |-> <<>>,
          entity |-> [cls |-> reg[calculation_type], a |-> a, b |-> b]]

\* create_calculation(calculation_type, a, b): the object returned, or the exception
CreateCalculation(reg, calculation_type, a, b) ==
    LET calculation_type_lower == PyLower(calculation_type)
        calculation_class == DictGet(reg, calculation_type_lower)
    IN  IF ~Truthy(calculation_class)
        THEN [kind |-> "ValueError",
              text |-> <<"Unsupported calculation type: '", calculation_type, "'">>,
              entity |-> NoEntity]
        ELSE [kind |-> "ok",
              text |-> <<>>,
              entity |-> NewCalculation(calculation_class, a, b)]

-----------------------------------------------------------------------------
(* Inputs *)

N_add == <<"a","d","d">>
N_ADD == <<"A","D","D">>
N_subtract == <<"s","u","b","t","r","a","c","t">>
N_multiply == <<"m","u","l","t","i","p","l","y">>
N_divide == <<"d","i","v","i","d","e">>
N_power == <<"p","o","w","e","r">>
N_POWER == <<"P","O","W","E","R">>

Names == {N_add, N_ADD, N_subtract, N_multiply, N_divide, N_power, N_POWER}

\* classes a client registers after import
Registrable == ClientClasses

Operands == {FromInt(k) : k \in 0..MaxInt} \cup {FromInt(-2), NegZero, Half}

\* the result of cls(a, b).execute(), when there is one, is exactly representable
ExactFor(cls, a, b) ==
    LET r == Execute(NewCalculation(cls, a, b))
    IN  r.kind = "ok" => Exact(r.num)

-----------------------------------------------------------------------------
(* The registry once the module is imported: the four decorators of lines  *)
(* 99, 106, 113 and 122 have run, in that order, on the empty dictionary.  *)

EmptyDict == [k \in {} |-> "None"]

InitialRegistry ==
    LET r1 == RegisterCalculation(EmptyDict, N_add, "AddCalculation").registry
        r2 == RegisterCalculation(r1, N_subtract, "SubtractCalculation").registry
        r3 == RegisterCalculation(r2, N_multiply, "MultiplyCalculation").registry
    IN  RegisterCalculation(r3, N_divide, "DivideCalculation").registry

-----------------------------------------------------------------------------
(* Calls made one after another *)

Out(op, name, cls, r, args) ==
    [op |-> op, name |-> name, cls |-> cls, kind |-> r.kind, num |-> r.num,
     text |-> r.text, lib |-> r.lib, args |-> args]

NoResult == [kind |-> "ok", num |-> Zero, text |-> <<>>, lib |-> NoLib]

Push(h, r) ==
    LET h2 == Append(h, r)
    IN  IF Len(h2) > MaxRenders THEN Tail(h2) ELSE h2

\* CalculationFactory.register_calculation(name)(cls)
Register(name, cls) ==
    LET r == RegisterCalculation(registry, name, cls)
    IN  /\ registry' = r.registry
        /\ outcome' = Out("register", name, cls, [NoResult EXCEPT !.kind = r.kind, !.text = r.text], <<>>)
        /\ UNCHANGED <<operands, entity, renders>>

\* CalculationFactory.create_calculation(name, a, b)
Create(name, a, b) ==
    LET r == CreateCalculation(registry, name, a, b)
    IN  /\ r.kind = "ok" => ExactFor(r.entity.cls, a, b)
        /\ outcome' = Out("create", name, r.entity.cls,
                          [NoResult EXCEPT !.kind = r.kind, !.text = r.text],
                          IF r.kind = "ok" THEN <<a, b>> ELSE <<>>)
        /\ entity' = IF r.kind = "ok" THEN r.entity ELSE entity
        /\ renders' = IF r.kind = "ok" THEN <<>> ELSE renders
        /\ UNCHANGED <<operands, registry>>

\* entity.execute()
ExecuteCall ==
    /\ entity # NoEntity
    /\ outcome' = Out("execute", <<>>, entity.cls, Execute(entity), <<>>)
    /\ UNCHANGED <<operands, registry, entity, renders>>

\* str(entity)
StrCall ==
    /\ entity # NoEntity
    /\ outcome' = Out("str", <<>>, entity.cls, Str(entity), <<>>)
    /\ renders' = Push(renders, Str(entity))
    /\ UNCHANGED <<operands, registry, entity>>

Threads == {"t1", "t2", "t3"}

NoFrame == [name |-> <<>>, cls |-> "None", key |-> <<>>, got |-> "None"]
NoRet == [op |-> "none", name |-> <<>>, cls |-> "None", kind |-> "ok", text |-> <<>>]

Init ==
    /\ operands \in Operands \X Operands
    /\ registry = InitialRegistry
    /\ entity = NoEntity
    /\ outcome = Out("import", <<>>, "None", NoResult, <<>>)
    /\ renders = <<>>
    /\ cregistry = InitialRegistry
    /\ pc = [t \in Threads |-> "idle"]
    /\ frame = [t \in Threads |-> NoFrame]
    /\ ret = [t \in Threads |-> NoRet]
    /\ accepted = {}
    /\ ncalls = 0

Next ==
    \/ \E name \in Names, cls \in Registrable : Register(name, cls) /\ UNCHANGED concVars
    \/ \E name \in Names : Create(name, operands[1], operands[2]) /\ UNCHANGED concVars
    \/ ExecuteCall /\ UNCHANGED concVars
    \/ StrCall /\ UNCHANGED concVars

Spec == Init /\ [][Next]_vars

-----------------------------------------------------------------------------
(* Calls made by threads.  A thread switch can fall between any two        *)
(* bytecodes; the single dictionary operations (`in`, `[]=`, `.get`) are   *)
(* atomic, everything else a call does is local to its thread.             *)

ConcNames == {N_add, N_power, N_POWER}

\* operands of the create calls of the threaded runs
ConcOperands == <<FromInt(2), FromInt(3)>>

\* line 68: the decorator is entered and the key computed
CallRegister(t, name, cls) ==
    /\ pc[t] = "idle"
    /\ ncalls < MaxCalls
    /\ ncalls' = ncalls + 1
    /\ frame' = [frame EXCEPT ![t] = [name |-> name, cls |-> cls, key |-> PyLower(name), got |-> "None"]]
    /\ pc' = [pc EXCEPT ![t] = "reg_check"]
    /\ UNCHANGED <<cregistry, ret, accepted>>

\* lines 70-71: the membership test, and the raise when it finds the key
RegCheck(t) ==
    /\ pc[t] = "reg_check"
    /\ IF frame[t].key \in DOMAIN cregistry
       THEN /\ ret' = [ret EXCEPT ![t] =
                    [op |-> "register", name |-> frame[t].name, cls |-> frame[t].cls,
                     kind |-> "ValueError",
                     text |-> <<"Calculation type '", frame[t].name, "' is already registered.">>]]
            /\ pc' = [pc EXCEPT ![t] = "idle"]
       ELSE /\ pc' = [pc EXCEPT ![t] = "reg_write"]
            /\ UNCHANGED ret
    /\ UNCHANGED <<cregistry, frame, accepted, ncalls>>

\* lines 73-74: the store, and the return of the subclass
RegWrite(t) ==
    /\ pc[t] = "reg_write"
    /\ cregistry' = DictSet(cregistry, frame[t].key, frame[t].cls)
    /\ ret' = [ret EXCEPT ![t] =
            [op |-> "register", name |-> frame[t].name, cls |-> frame[t].cls,
             kind |-> "ok", text |-> <<>>]]
    /\ accepted' = accepted \cup {<<frame[t].key, frame[t].cls, t>>}
    /\ pc' = [pc EXCEPT ![t] = "idle"]
    /\ UNCHANGED <<frame, ncalls>>

\* line 79: create_calculation is entered and the key computed
CallCreate(t, name) ==
    /\ pc[t] = "idle"
    /\ ncalls < MaxCalls
    /\ ncalls' = ncalls + 1
    /\ frame' = [frame EXCEPT ![t] = [name |-> name, cls |-> "None", key |-> PyLower(name), got |-> "None"]]
    /\ pc' = [pc EXCEPT ![t] = "cre_get"]
    /\ UNCHANGED <<cregistry, ret, accepted>>

\* line 80: the lookup
CreGet(t) ==
    /\ pc[t] = "cre_get"
    /\ frame' = [frame EXCEPT ![t].got = DictGet(cregistry, frame[t].key)]
    /\ pc' = [pc EXCEPT ![t] = "cre_test"]
    /\ UNCHANGED <<cregistry, ret, accepted, ncalls>>

\* lines 82-86: the test of what the lookup gave, then the raise or the construction
CreReturn(t) ==
    /\ pc[t] = "cre_test"
    /\ ret' = [ret EXCEPT ![t] =
            IF ~Truthy(frame[t].got)
            THEN [op |-> "create", name |-> frame[t].name, cls |-> "None",
                  kind |-> "ValueError",
                  text |-> <<"Unsupported calculation type: '", frame[t].name, "'">>]
            ELSE [op |-> "create", name |-> frame[t].name,
                  cls |-> NewCalculation(frame[t].got, ConcOperands[1], ConcOperands[2]).cls,
                  kind |-> "ok", text |-> <<>>]]
    /\ pc' = [pc EXCEPT ![t] = "idle"]
    /\ UNCHANGED <<cregistry, frame, accepted, ncalls>>

NextConc ==
    \/ \E t \in Threads, name \in ConcNames, cls \in Registrable :
          CallRegister(t, name, cls) /\ UNCHANGED seqVars
    \/ \E t \in Threads : RegCheck(t) /\ UNCHANGED seqVars
    \/ \E t \in Threads : RegWrite(t) /\ UNCHANGED seqVars
    \/ \E t \in Threads, name \in ConcNames : CallCreate(t, name) /\ UNCHANGED seqVars
    \/ \E t \in Threads : CreGet(t) /\ UNCHANGED seqVars
    \/ \E t \in Threads : CreReturn(t) /\ UNCHANGED seqVars

InitConc == Init /\ operands = ConcOperands

SpecConc == InitConc /\ [][NextConc]_vars

-----------------------------------------------------------------------------
(* Properties *)

UnsupportedText(name) == <<"Unsupported calculation type: '", name, "'">>
DuplicateText(name) == <<"Calculation type '", name, "' is already registered.">>

\* the value n/d of a float as a signed fraction: Sg(x) / x.d
\* r = x + y, r = x - y, r = x * y, r = x / y, by cross-multiplication
IsSum(r, x, y) == Sg(r) * x.d * y.d = (Sg(x) * y.d + Sg(y) * x.d) * r.d
IsDifference(r, x, y) == Sg(r) * x.d * y.d = (Sg(x) * y.d - Sg(y) * x.d) * r.d
IsProduct(r, x, y) == Sg(r) * x.d * y.d = Sg(x) * Sg(y) * r.d
IsQuotient(r, x, y) == Sg(r) * x.d * Sg(y) = Sg(x) * y.d * r.d

\* C1 (state part): a create call of a name whose lowercase form is no key raised
\* ValueError "Unsupported calculation type: '<name as given>'" and returned no
\* object; a create call of a name whose lowercase form is a key returned an object
\* of the class stored under that key, holding the operands passed.
C1_Outcome ==
    outcome.op = "create" =>
        IF PyLower(outcome.name) \notin DOMAIN registry
        THEN /\ outcome.kind = "ValueError"
             /\ outcome.text = UnsupportedText(outcome.name)
             /\ outcome.cls = "None"
        ELSE /\ outcome.kind = "ok"
             /\ outcome.args = operands
             /\ entity = [cls |-> registry[PyLower(outcome.name)],
                          a |-> outcome.args[1], b |-> outcome.args[2]]

\* C1 (step part): a create call leaves the registry as it was, and a failing one
\* constructs nothing (the object built last is still the one built before).
C1_Step ==
    outcome'.op = "create" =>
        /\ registry' = registry
        /\ outcome'.kind # "ok" => entity' = entity

\* C1: create fails with UnsupportedOperation naming the operator as requested,
\* constructs no entity and leaves the registry unchanged when the lowercased name
\* is no key, and otherwise returns an entity of the registered constructor holding
\* (a, b).
C1_CreateContract == [](C1_Outcome) /\ [][C1_Step]_vars

C1_Witness ==
    /\ outcome.op = "create"
    /\ outcome.kind = "ValueError"
    /\ outcome.name = N_POWER
    /\ entity.cls = "AddCalculation"
    /\ Cardinality(DOMAIN registry) = 4

\* C2: a register call of a name whose lowercase form is already a key raises
\* ValueError "... is already registered." and leaves the registry unchanged; the
\* key still maps to the constructor registered first, and a create under that name
\* right after returns an entity of that constructor, not of the rejected one.
C2_DuplicateStep ==
    (outcome'.op = "register" /\ PyLower(outcome'.name) \in DOMAIN registry) =>
        /\ outcome'.kind = "ValueError"
        /\ outcome'.text = DuplicateText(outcome'.name)
        /\ registry' = registry
        /\ registry'[PyLower(outcome'.name)] = registry[PyLower(outcome'.name)]
        /\ CreateCalculation(registry', outcome'.name, operands[1], operands[2]).entity.cls
              = registry[PyLower(outcome'.name)]

C2_DuplicateRejected == [][C2_DuplicateStep]_vars

C2_Witness ==
    /\ outcome.op = "register"
    /\ outcome.kind = "ValueError"
    /\ outcome.name = N_POWER
    /\ outcome.cls = "Ratio"
    /\ N_power \in DOMAIN registry
    /\ registry[N_power] = "TaxCalculationSumCalculation"

IsDivide(cls) == cls \in {"DivideCalculation", "Ratio"}

\* C3: create("divide", a, b) succeeds in every registry state and gives a
\* DivideCalculation; execute() of a Divide entity raises ZeroDivisionError exactly
\* when b is zero, without having called Operation.division, and otherwise returns
\* a / b from Operation.division(a, b); no call ever reaches Operation.division with
\* a zero divisor.
C3_Divide ==
    /\ LET r == CreateCalculation(registry, N_divide, operands[1], operands[2])
       IN  r.kind = "ok" /\ r.entity = [cls |-> "DivideCalculation", a |-> operands[1], b |-> operands[2]]
    /\ (outcome.op = "execute" /\ IsDivide(entity.cls)) =>
          IF entity.b.n = 0
          THEN /\ outcome.kind = "ZeroDivisionError"
               /\ outcome.text = <<"Cannot divide by zero.">>
               /\ outcome.lib = NoLib
          ELSE /\ outcome.kind = "ok"
               /\ outcome.lib = <<"division", entity.a, entity.b>>
               /\ IsQuotient(outcome.num, entity.a, entity.b)
    /\ (outcome.lib # NoLib /\ outcome.lib[1] = "division") => outcome.lib[3].n # 0

C3_Witness ==
    /\ outcome.op = "execute"
    /\ entity = [cls |-> "DivideCalculation", a |-> FromInt(1), b |-> NegZero]
    /\ outcome.kind = "ZeroDivisionError"

\* C4: create("add" / "subtract" / "multiply", a, b) gives an entity whose
\* execute() succeeds and returns a + b, a - b, a * b.
C4_Arithmetic ==
    /\ CreateCalculation(registry, N_add, operands[1], operands[2]).entity.cls = "AddCalculation"
    /\ CreateCalculation(registry, N_subtract, operands[1], operands[2]).entity.cls = "SubtractCalculation"
    /\ CreateCalculation(registry, N_multiply, operands[1], operands[2]).entity.cls = "MultiplyCalculation"
    /\ (outcome.op = "execute" /\ entity.cls = "AddCalculation") =>
          outcome.kind = "ok" /\ IsSum(outcome.num, entity.a, entity.b)
    /\ (outcome.op = "execute" /\ entity.cls = "SubtractCalculation") =>
          outcome.kind = "ok" /\ IsDifference(outcome.num, entity.a, entity.b)
    /\ (outcome.op = "execute" /\ entity.cls = "MultiplyCalculation") =>
          outcome.kind = "ok" /\ IsProduct(outcome.num, entity.a, entity.b)

C4_Witness ==
    /\ outcome.op = "execute"
    /\ entity = [cls |-> "SubtractCalculation", a |-> FromInt(2), b |-> FromInt(3)]
    /\ outcome.kind = "ok"
    /\ outcome.num = FromInt(-1)

\* C5: every key of the registry is its own lowercase form, a successful register
\* stored the constructor under the lowercased name, and two names with the same
\* lowercase form give the same outcome of create in every registry state.
C5_CaseInsensitive ==
    /\ \A k \in DOMAIN registry : PyLower(k) = k
    /\ (outcome.op = "register" /\ outcome.kind = "ok") =>
          /\ PyLower(outcome.name) \in DOMAIN registry
          /\ registry[PyLower(outcome.name)] = outcome.cls
    /\ \A n1 \in Names, n2 \in Names :
          PyLower(n1) = PyLower(n2) =>
             LET r1 == CreateCalculation(registry, n1, operands[1], operands[2])
                 r2 == CreateCalculation(registry, n2, operands[1], operands[2])
             IN  r1.kind = r2.kind /\ r1.entity = r2.entity

C5_Witness ==
    /\ outcome.op = "create"
    /\ outcome.name = N_POWER
    /\ outcome.kind = "ok"
    /\ entity.cls = "Ratio"
    /\ DOMAIN registry = {N_add, N_subtract, N_multiply, N_divide, N_power}

C6_InitialKeys ==
    /\ {N_add, N_subtract, N_multiply, N_divide} \subseteq DOMAIN registry
    /\ registry[N_add] = "AddCalculation"
    /\ registry[N_subtract] = "SubtractCalculation"
    /\ registry[N_multiply] = "MultiplyCalculation"
    /\ registry[N_divide] = "DivideCalculation"

C6_Step ==
    /\ \A k \in DOMAIN registry : k \in DOMAIN registry' /\ registry'[k] = registry[k]
    /\ outcome'.op = "create" => registry' = registry
    /\ (outcome'.op = "register" /\ outcome'.kind = "ok") =>
          /\ PyLower(outcome'.name) \notin DOMAIN registry
          /\ DOMAIN registry' = DOMAIN registry \cup {PyLower(outcome'.name)}

\* C6: starting from the registry of add, subtract, multiply and divide, no call
\* removes a key or changes a key's constructor; create does not modify the
\* registry and a successful register adds exactly one new key.
C6_AppendOnly == [](C6_InitialKeys) /\ [][C6_Step]_vars

C6_Witness ==
    /\ outcome.op = "register"
    /\ outcome.kind = "ok"
    /\ outcome.name = N_POWER
    /\ DOMAIN registry = {N_add, N_subtract, N_multiply, N_divide, N_power}
    /\ registry[N_power] = "Ratio"
    /\ entity.cls = "MultiplyCalculation"

\* str.removesuffix(suffix)
StripSuffix(s, suffix) ==
    IF Len(s) >= Len(suffix) /\ SubSeq(s, Len(s) - Len(suffix) + 1, Len(s)) = suffix
    THEN SubSeq(s, 1, Len(s) - Len(suffix))
    ELSE s

\* C7: str() of an entity whose execute() succeeds is
\* "<EntityName>: <a> <symbol> <b> = <result>", <symbol> being the class name with
\* only the suffix "Calculation" stripped and <result> the value of execute().
C7_SuffixOnly ==
    (outcome.op = "str" /\ outcome.kind = "ok") =>
        outcome.text =
            Concat(<< ClassName(entity.cls), <<":", " ">>, FloatStr(entity.a), <<" ">>,
                      StripSuffix(ClassName(entity.cls), CalculationWord), <<" ">>,
                      FloatStr(entity.b), <<" ", "=", " ">>,
                      FloatStr(Execute(entity).num) >>)

\* C8 (state part): the str() calls made on an entity all had the same outcome, which
\* is the exception of execute() when execute() fails (ZeroDivisionError "Cannot
\* divide by zero." for a Divide entity with b = 0) and a string otherwise.
C8_SameOutcome ==
    /\ \A i \in DOMAIN renders, j \in DOMAIN renders : renders[i] = renders[j]
    /\ \A i \in DOMAIN renders :
          /\ renders[i].kind = Execute(entity).kind
          /\ renders[i].kind # "ok" => renders[i] = Execute(entity)
          /\ renders[i].kind = "ok" => Len(renders[i].text) > 0
          /\ (IsDivide(entity.cls) /\ entity.b.n = 0) =>
                /\ renders[i].kind = "ZeroDivisionError"
                /\ renders[i].text = <<"Cannot divide by zero.">>
          /\ ~(IsDivide(entity.cls) /\ entity.b.n = 0) => renders[i].kind = "ok"

C8_Step ==
    outcome'.op = "str" => entity' = entity /\ registry' = registry

\* C8: rendering twice gives the same outcome both times, the same string when
\* execute succeeds and the same DivisionByZero failure for a Divide with b = 0;
\* rendering changes neither the entity's operands nor the registry.
C8_RenderIdempotent == [](C8_SameOutcome) /\ [][C8_Step]_vars

C8_Witness ==
    /\ Len(renders) = 2
    /\ renders[1].kind = "ZeroDivisionError"
    /\ renders[2].kind = "ZeroDivisionError"
    /\ entity.cls = "DivideCalculation"
    /\ outcome.op = "str"

\* the keys and classes of the registry after import
InitialPairs == {<<k, InitialRegistry[k]>> : k \in DOMAIN InitialRegistry}

\* C9: whatever the interleaving, a finished create call either raised ValueError
\* "Unsupported calculation type" or returned an entity of a class that a register
\* call stored under the lowercased name (at import or since).
C9_SafeInterleaving ==
    \A t \in Threads :
        ret[t].op = "create" =>
            \/ /\ ret[t].kind = "ValueError"
               /\ ret[t].text = UnsupportedText(ret[t].name)
            \/ /\ ret[t].kind = "ok"
               /\ \/ <<PyLower(ret[t].name), ret[t].cls>> \in InitialPairs
                  \/ \E x \in accepted : x[1] = PyLower(ret[t].name) /\ x[2] = ret[t].cls

C9_Witness ==
    \E t \in Threads, u \in Threads :
        /\ t # u
        /\ ret[t].op = "create"
        /\ ret[t].kind = "ok"
        /\ ret[t].name = N_POWER
        /\ ret[t].cls = "Ratio"
        /\ pc[u] = "reg_write"
        /\ frame[u].key = N_power
        /\ frame[u].cls = "TaxCalculationSumCalculation"

\* C10: of the register calls made for one lowercased name, racing or not, at most
\* one returns normally, and the constructor it stored stays the one under the key.
C10_UniqueUnderRace ==
    /\ \A x \in accepted, y \in accepted : x[1] = y[1] => x = y
    /\ \A x \in accepted : cregistry[x[1]] = x[2]

====
